---- MODULE Spec2Model ----
(***************************************************************************)
(* Model of the BlackSheep API server: the credential store (users table), *)
(* the bearer-token auth gate, the user-management handlers mounted by     *)
(* src/main.py (the api/v1 routers) and the usage ledger.                  *)
(*                                                                         *)
(* The specifications share the variables:                                 *)
(*   Spec          - user management and authentication requests, each     *)
(*                   handled as one unit of work;                          *)
(*   SpecAuth      - the same requests while the clock advances, so that   *)
(*                   tokens age and expire;                                *)
(*   SpecAccounts  - accounts that are created, change their passwords and *)
(*                   are deleted;                                          *)
(*   SpecCreate    - create-user requests whose existence check and insert *)
(*                   interleave;                                           *)
(*   SpecStartup   - the same with restarts of the process and health      *)
(*                   probes in between;                                    *)
(*   SpecModels    - the model registry requests;                          *)
(*   SpecCall      - model calls through POST /api/call;                   *)
(*   SpecKeys      - model calls by users who rotate their api keys and    *)
(*                   read their usage;                                     *)
(*   SpecUsage     - the usage aggregate over a ledger written over time;  *)
(*   SpecSession   - units of work on storage sessions from get_session;   *)
(*   SpecLedgerSeq - record_model_usage calls executed one after another;  *)
(*   SpecLedger    - record_model_usage calls whose two awaits (the SELECT *)
(*                   and the write + commit) interleave.                   *)
(***************************************************************************)
EXTENDS Integers, Sequences, FiniteSets, Bags, TLC

VARIABLES
    users,      \* users table: set of rows (src/db/models/users.py)
    nextKey,    \* source of fresh uuid4 values (api keys)
    tokens,     \* bearer tokens issued so far, each with the row it was issued to
    now,        \* wall clock, in minutes
    resp,       \* the request handled by the last step, and its response
    usage,      \* user_model_usage table: set of rows
    inflight,   \* bag of calls between their SELECT and their write (record_model_usage,
                \* and create_user where its two awaits are told apart)
    recorded,   \* history: per (user_id, usage_type), sum of the counts of completed calls
    models      \* models table: set of rows (src/db/models/models.py)

vars == <<users, nextKey, tokens, now, resp, usage, inflight, recorded, models>>

authVars == <<users, nextKey, tokens, now>>
ledgerVars == <<usage, inflight, recorded>>

---------------------------------------------------------------------------
(* Bounds of the model *)

MaxKeys == 3        \* uuid4 values drawn (user rows ever created)
MaxTokens == 2      \* bearer tokens issued
MaxInflight == 2    \* record_model_usage calls in flight at once
MaxTotal == 11      \* tokens recorded in the ledger, over all calls
MaxCallTotal == 10  \* tokens recorded in the ledger by model calls
MaxOps == 3         \* storage operations in the body of one unit of work

---------------------------------------------------------------------------
(* Program constants *)

DEFAULT_ADMIN_USERNAME == "admin"
DEFAULT_ADMIN_PASSWORD == "admin"
ACCESS_TOKEN_EXPIRE_MINUTES == 30
VERSION == "1.0.0"
ENVIRONMENT == "development"

HTTP_200_OK == 200
HTTP_400_BAD_REQUEST == 400
HTTP_401_UNAUTHORIZED == 401
HTTP_403_FORBIDDEN == 403
HTTP_404_NOT_FOUND == 404
HTTP_500_INTERNAL_SERVER_ERROR == 500

(* Inputs of the requests *)
Usernames == {DEFAULT_ADMIN_USERNAME, "alice"}
Passwords == {DEFAULT_ADMIN_PASSWORD, "pw"}
NewPasswords == {"pw"}
\* the instants at which requests arrive: around the issue and the expiry of a token
Instants == {0, ACCESS_TOKEN_EXPIRE_MINUTES, ACCESS_TOKEN_EXPIRE_MINUTES + 1}

---------------------------------------------------------------------------
(* Users table and repository *)

Max(S) == CHOOSE x \in S : \A y \in S : y <= x

\* INTEGER PRIMARY KEY of a new row: one more than the largest id in the table
NextId(rows) == IF rows = {} THEN 1 ELSE Max({r.id : r \in rows}) + 1

UserORM(id, username, password, api_key, is_admin) ==
    [id |-> id, username |-> username, password |-> password,
     api_key |-> api_key, is_admin |-> is_admin,
     born |-> api_key]   \* history: identifies the row through later updates

\* SQLAlchemyUserRepository.get_by_username: scalar_one_or_none, as a set
get_by_username(us, username) == {u \in us : u.username = username}

\* SQLAlchemyUserRepository.create_user: add + flush
repo_create_user(us, key, username, password, is_admin) ==
    us \cup {UserORM(NextId(us), username, password, key, is_admin)}

\* BaseRepository.delete: DELETE ... WHERE id = record_id
repo_delete(us, record_id) == {u \in us : u.id # record_id}

RECURSIVE SortedById(_)
SortedById(rows) ==
    IF rows = {} THEN <<>>
    ELSE LET first == CHOOSE r \in rows : \A q \in rows : r.id <= q.id
         IN <<first>> \o SortedById(rows \ {first})

\* BaseRepository.get_all: SELECT of every row
repo_get_all(us) == SortedById(us)

UserMeResponse(u) ==
    [username |-> u.username, api_key |-> u.api_key, is_admin |-> u.is_admin]

---------------------------------------------------------------------------
(* Auth gate *)

\* authenticate_user without the password comparison
authenticate_user_any_password(us, username, password) ==
    get_by_username(us, username)

\* authenticate_user: the matching row, or None (the empty set)
authenticate_user(us, username, password) ==
    LET found == get_by_username(us, username)
    IN IF found = {} THEN {}
       ELSE {u \in found : u.password = password}

\* create_access_token: {sub, exp = now + ttl}, signed with SECRET_KEY
create_access_token(sub, t) ==
    [sub |-> sub, exp |-> t + ACCESS_TOKEN_EXPIRE_MINUTES, sig |-> "ok"]

\* a token that was not signed with SECRET_KEY
ForgedToken == [sub |-> DEFAULT_ADMIN_USERNAME, exp |-> 1000, sig |-> "bad"]

\* verify_token without the expiry check
verify_token_no_expiry(jwt, t) == jwt.sig = "ok"

\* verify_token: jwt.decode checks the signature and rejects exp < now (a token
\* presented at the very instant exp is still accepted)
verify_token(jwt, t) == jwt.sig = "ok" /\ ~(jwt.exp < t)

Unauthorized(detail) ==
    [ok |-> FALSE, user |-> {}, status |-> HTTP_401_UNAUTHORIZED, detail |-> detail]

\* get_current_user: decode, then look the user up again by the decoded username
get_current_user(us, jwt, t) ==
    IF ~verify_token(jwt, t) THEN Unauthorized("Could not validate credentials")
    ELSE LET found == get_by_username(us, jwt.sub)
         IN IF found = {} THEN Unauthorized("User not found")
            ELSE [ok |-> TRUE, user |-> found, status |-> HTTP_200_OK, detail |-> ""]

\* the tokens a client can present: those issued, or a forged one
Presentable == {tk.jwt : tk \in tokens} \cup {ForgedToken}

The(S) == CHOOSE x \in S : TRUE

---------------------------------------------------------------------------
(* Usage ledger *)

ModelUsageType == {"COMPLETION", "PROMPT", "CACHED"}
ModelIds == {1, 2}
Counts == {3, 5}
\* an optional date: None is the empty set
NoDate == {}

UserModelUsage(id, user_id, model_id, usage_type, usage_count, created_at) ==
    [id |-> id, user_id |-> user_id, model_id |-> model_id,
     usage_type |-> usage_type, usage_count |-> usage_count, created_at |-> created_at]

\* the rows the WHERE clause of record_model_usage selects
usage_matching(usg, user_id, model_id, usage_type) ==
    {r \in usg : r.user_id = user_id /\ r.model_id = model_id /\ r.usage_type = usage_type}

\* usage_write whose UPDATE stores the new count instead of adding it
usage_write_overwrites(usg, call, t) ==
    IF call.found
    THEN {IF r.user_id = call.user_id /\ r.model_id = call.model_id
             /\ r.usage_type = call.usage_type
          THEN [r EXCEPT !.usage_count = call.usage_count]
          ELSE r : r \in usg}
    ELSE usg \cup {[id |-> NextId(usg), user_id |-> call.user_id,
                    model_id |-> call.model_id, usage_type |-> call.usage_type,
                    usage_count |-> call.usage_count, created_at |-> t]}

\* record_model_usage, the write: UPDATE ... SET usage_count = usage_count + n on
\* the rows of the triple when the SELECT found a record, else the INSERT of a row
usage_write(usg, call, t) ==
    IF call.found
    THEN {IF r \in usage_matching(usg, call.user_id, call.model_id, call.usage_type)
          THEN [r EXCEPT !.usage_count = r.usage_count + call.usage_count]
          ELSE r : r \in usg}
    ELSE usg \cup {UserModelUsage(NextId(usg), call.user_id, call.model_id,
                                  call.usage_type, call.usage_count, t)}

RECURSIVE SumCounts(_)
SumCounts(rows) ==
    IF rows = {} THEN 0
    ELSE LET r == CHOOSE x \in rows : TRUE
         IN r.usage_count + SumCounts(rows \ {r})

\* get_usage_by_user_name_and_date_range without the end_date filter
get_usage_ignoring_end_date(us, usg, username, start_date, end_date) ==
    LET result == {r \in usg :
                     /\ \E u \in us : u.id = r.user_id /\ u.username = username
                     /\ (start_date # NoDate => r.created_at >= The(start_date))}
    IN [usage_type \in ModelUsageType |->
           SumCounts({r \in result : r.usage_type = usage_type})]

\* get_usage_by_user_name_and_date_range: per usage type, the sum of usage_count
\* over the rows joined to the user of that name, within the optional date range
get_usage_by_user_name_and_date_range(us, usg, username, start_date, end_date) ==
    LET result == {r \in usg :
                     /\ \E u \in us : u.id = r.user_id /\ u.username = username
                     /\ (start_date # NoDate => r.created_at >= The(start_date))
                     /\ (end_date # NoDate => r.created_at <= The(end_date))}
    IN [usage_type \in ModelUsageType |->
           SumCounts({r \in result : r.usage_type = usage_type})]

Call(user_id, model_id, usage_count, usage_type, found) ==
    [user_id |-> user_id, model_id |-> model_id, usage_count |-> usage_count,
     usage_type |-> usage_type, found |-> found]

RECURSIVE SumCalls(_)
SumCalls(calls) ==
    IF calls = {} THEN 0
    ELSE LET c == CHOOSE x \in calls : TRUE
         IN c.usage_count * CopiesIn(c, inflight) + SumCalls(calls \ {c})

SumRecorded == SumCounts({[usage_count |-> recorded[k], key |-> k] : k \in DOMAIN recorded})

\* tokens recorded or about to be, over all calls started so far
Started == SumRecorded + SumCalls(BagToSet(inflight))

---------------------------------------------------------------------------
(* Model registry *)

ModelType == {"AZURE_OPENAI", "OPENAI", "ANTHROPIC", "GEMINI", "GCP_GEMINI"}

\* names and types the requests carry
ModelNames == {"gpt", "gpt-mini", "claude", "new"}
RequestedTypes == {"AZURE_OPENAI", "ANTHROPIC"}

\* Python's None, and the mark of a required argument the caller did not pass
None == "None"
NotPassed == "<not passed>"

Models(id, model_name, model_type, model_description, model_endpoint, model_api_key, model_deployment_name) ==
    [id |-> id, model_name |-> model_name, model_type |-> model_type,
     model_description |-> model_description, model_endpoint |-> model_endpoint,
     model_api_key |-> model_api_key, model_deployment_name |-> model_deployment_name]

ModelCreateRequest(model_name, model_type) ==
    [model_name |-> model_name, model_type |-> model_type,
     model_deployment_name |-> "deployment", model_description |-> "description",
     model_endpoint |-> "endpoint", model_api_key |-> "provider-key"]

\* create_model_db: binding the arguments raises TypeError when a required one
\* is not passed; then None for a taken name, else the inserted row
create_model_db(ms, model_name, model_type, model_deployment_name, model_endpoint, model_api_key, model_description) ==
    IF NotPassed \in {model_name, model_type, model_deployment_name,
                      model_endpoint, model_api_key}
    THEN [raised |-> "TypeError", model |-> {}, models |-> ms]
    ELSE IF \E m \in ms : m.model_name = model_name
         THEN [raised |-> "", model |-> {}, models |-> ms]
         ELSE LET new_model == Models(NextId(ms), model_name, model_type,
                                      model_description, model_endpoint,
                                      model_api_key, model_deployment_name)
              IN [raised |-> "", model |-> {new_model}, models |-> ms \cup {new_model}]

\* get_all_models: SELECT of every row
get_all_models(ms) == SortedById(ms)

\* delete_model: DELETE ... WHERE model_name = ..., True iff a row went
delete_model(ms, model_name) ==
    [success |-> \E m \in ms : m.model_name = model_name,
     models |-> {m \in ms : m.model_name # model_name}]

\* get_model_by_name: the row as a ModelDTO, or None (the empty set);
\* ModelDTO.model_validate raises on a row whose description is None
get_model_by_name(ms, model_name) ==
    LET model == {m \in ms : m.model_name = model_name}
    IN IF model = {} THEN [raised |-> "", model |-> {}]
       ELSE IF \E m \in model : m.model_description = None
            THEN [raised |-> "ValidationError", model |-> {}]
            ELSE [raised |-> "", model |-> model]

\* a registry provisioned through create_model_db with every argument given:
\* two models of the supported type and one of an unsupported type
SeededModels ==
    LET one == create_model_db({}, "gpt", "AZURE_OPENAI", "deployment", "endpoint",
                               "provider-key", "description").models
        two == create_model_db(one, "claude", "ANTHROPIC", "deployment", "endpoint",
                               "provider-key", "description").models
    IN create_model_db(two, "gpt-mini", "AZURE_OPENAI", "deployment", "endpoint",
                       "provider-key", "description").models

---------------------------------------------------------------------------
(* Requests and responses *)

Response(op, jwt, username, password, is_admin, status, detail, body) ==
    [op |-> op, jwt |-> jwt, username |-> username, password |-> password,
     is_admin |-> is_admin, status |-> status, detail |-> detail, body |-> body]

NoResponse == Response("none", ForgedToken, "", "", FALSE, 0, "", <<>>)

\* the users table startup_event leaves: the default admin
SeededUsers == repo_create_user({}, 1, DEFAULT_ADMIN_USERNAME, DEFAULT_ADMIN_PASSWORD, TRUE)

Init ==
    /\ users = SeededUsers
    /\ nextKey = 2
    /\ tokens = {}
    /\ now = 0
    /\ resp = NoResponse
    /\ usage = {}
    /\ inflight = EmptyBag
    /\ recorded = [k \in {1, 2} \X ModelUsageType |-> 0]
    /\ models = {}

\* time passes
Tick ==
    /\ \E t \in Instants : t > now /\ now' = t
    /\ resp' = NoResponse
    /\ UNCHANGED <<users, nextKey, tokens, ledgerVars, models>>

\* POST /login (api/v1/login.py)
login ==
    \E username \in Usernames, password \in Passwords :
        LET user == authenticate_user(users, username, password)
        IN IF user = {}
           THEN /\ resp' = Response("login", ForgedToken, username, password, FALSE,
                                    HTTP_401_UNAUTHORIZED,
                                    "Incorrect username or password", <<>>)
                /\ UNCHANGED <<users, nextKey, tokens, now, ledgerVars, models>>
           ELSE LET jwt == create_access_token(The(user).username, now)
                    tk == [jwt |-> jwt, born |-> The(user).born]
                IN /\ (tk \in tokens \/ Cardinality(tokens) < MaxTokens)
                   /\ tokens' = tokens \cup {tk}
                   /\ resp' = Response("login", ForgedToken, username, password, FALSE,
                                       HTTP_200_OK, "", <<jwt>>)
                   /\ UNCHANGED <<users, nextKey, now, ledgerVars, models>>

\* create_user_body without the existence check: the insert replaces the record
create_user_body_overwrites(us, key, username, password, is_admin) ==
    [status |-> HTTP_200_OK, detail |-> "User created successfully",
     users |-> repo_create_user({u \in us : u.username # username},
                                key, username, password, is_admin)]

\* body of POST /users/create: the existence check, then the insert and the
\* commit; the response and the users table it leaves
create_user_body(us, key, username, password, is_admin) ==
    LET existing_user == get_by_username(us, username)
    IN IF existing_user # {}
       THEN [status |-> HTTP_400_BAD_REQUEST, detail |-> "User already exists.",
             users |-> us]
       ELSE [status |-> HTTP_200_OK, detail |-> "User created successfully",
             users |-> repo_create_user(us, key, username, password, is_admin)]

\* POST /users/create (api/v1/users.py): no Depends(get_current_user); the
\* Authorization header the client sends, if any, is never looked at
create_user ==
    \E jwt \in Presentable, username \in Usernames, password \in NewPasswords,
       is_admin \in BOOLEAN :
        LET r == create_user_body(users, nextKey, username, password, is_admin)
        IN /\ (r.users # users => nextKey <= MaxKeys)
           /\ users' = r.users
           /\ nextKey' = IF r.users # users THEN nextKey + 1 ELSE nextKey
           /\ resp' = Response("create_user", jwt, username, "", FALSE,
                               r.status, r.detail, <<>>)
           /\ UNCHANGED <<tokens, now, ledgerVars, models>>

\* GET /users/me (api/v1/users.py)
read_users_me ==
    \E jwt \in Presentable :
        LET current_user == get_current_user(users, jwt, now)
        IN /\ resp' = IF ~current_user.ok
                      THEN Response("read_users_me", jwt, "", "", FALSE,
                                    current_user.status, current_user.detail, <<>>)
                      ELSE Response("read_users_me", jwt, "", "", FALSE, HTTP_200_OK, "",
                                    <<UserMeResponse(The(current_user.user))>>)
           /\ UNCHANGED <<authVars, ledgerVars, models>>

\* read_all_users_body without the admin check
read_all_users_body_no_check(us, caller) ==
    LET all == repo_get_all(us)
    IN [status |-> HTTP_200_OK, detail |-> "",
        body |-> [i \in 1..Len(all) |-> UserMeResponse(all[i])]]

\* body of GET /users/all for an accepted caller
read_all_users_body(us, caller) ==
    IF ~caller.is_admin
    THEN [status |-> HTTP_403_FORBIDDEN, detail |-> "Not enough permissions", body |-> <<>>]
    ELSE LET all == repo_get_all(us)
         IN [status |-> HTTP_200_OK, detail |-> "",
             body |-> [i \in 1..Len(all) |-> UserMeResponse(all[i])]]

\* GET /users/all (api/v1/users.py)
read_all_users ==
    \E jwt \in Presentable :
        LET current_user == get_current_user(users, jwt, now)
        IN /\ resp' = IF ~current_user.ok
                      THEN Response("read_all_users", jwt, "", "", FALSE,
                                    current_user.status, current_user.detail, <<>>)
                      ELSE LET r == read_all_users_body(users, The(current_user.user))
                           IN Response("read_all_users", jwt, "", "", FALSE,
                                       r.status, r.detail, r.body)
           /\ UNCHANGED <<authVars, ledgerVars, models>>

\* remove_user_body without the "user is None" check
remove_user_body_no_lookup(us, caller, username) ==
    IF ~caller.is_admin
    THEN [status |-> HTTP_403_FORBIDDEN, detail |-> "Not enough permissions", users |-> us]
    ELSE [status |-> HTTP_200_OK, detail |-> "User deleted successfully",
          users |-> {u \in us : u.username # username}]

\* body of DELETE /users/{username} for an accepted caller: the response and
\* the users table it leaves
remove_user_body(us, caller, username) ==
    IF ~caller.is_admin
    THEN [status |-> HTTP_403_FORBIDDEN, detail |-> "Not enough permissions", users |-> us]
    ELSE LET user == get_by_username(us, username)
         IN IF user = {}
            THEN [status |-> HTTP_404_NOT_FOUND, detail |-> "User not found", users |-> us]
            ELSE [status |-> HTTP_200_OK, detail |-> "User deleted successfully",
                  users |-> repo_delete(us, The(user).id)]

\* DELETE /users/{username} (api/v1/users.py)
remove_user ==
    \E jwt \in Presentable, username \in Usernames :
        LET current_user == get_current_user(users, jwt, now)
        IN IF ~current_user.ok
           THEN /\ resp' = Response("remove_user", jwt, username, "", FALSE,
                                    current_user.status, current_user.detail, <<>>)
                /\ UNCHANGED <<authVars, ledgerVars, models>>
           ELSE LET r == remove_user_body(users, The(current_user.user), username)
                IN /\ users' = r.users
                   /\ resp' = Response("remove_user", jwt, username, "", FALSE,
                                       r.status, r.detail, <<>>)
                   /\ UNCHANGED <<nextKey, tokens, now, ledgerVars, models>>

---------------------------------------------------------------------------
(* Usage report and api key rotation *)

\* get_user_usage_body that looks the user up before it checks the caller
get_user_usage_body_lookup_first(us, caller, username) ==
    IF get_by_username(us, username) = {}
    THEN [status |-> HTTP_404_NOT_FOUND, detail |-> "User not found", body |-> <<>>]
    ELSE IF ~caller.is_admin /\ caller.username # username
         THEN [status |-> HTTP_403_FORBIDDEN, detail |-> "Not enough permissions",
               body |-> <<>>]
         ELSE [status |-> HTTP_200_OK, detail |-> "",
               body |-> <<[username |-> username, usage_limit |-> 0, current_usage |-> 0]>>]

\* body of GET /users/usage/{username} for an accepted caller
get_user_usage_body(us, caller, username) ==
    IF ~caller.is_admin /\ caller.username # username
    THEN [status |-> HTTP_403_FORBIDDEN, detail |-> "Not enough permissions", body |-> <<>>]
    ELSE LET user == get_by_username(us, username)
         IN IF user = {}
            THEN [status |-> HTTP_404_NOT_FOUND, detail |-> "User not found", body |-> <<>>]
            ELSE [status |-> HTTP_200_OK, detail |-> "",
                  body |-> <<[username |-> The(user).username, usage_limit |-> 0,
                              current_usage |-> 0]>>]

\* GET /users/usage/{username} (api/v1/users.py)
get_user_usage ==
    \E jwt \in Presentable, username \in Usernames :
        LET current_user == get_current_user(users, jwt, now)
        IN /\ resp' = IF ~current_user.ok
                      THEN Response("get_user_usage", jwt, username, "", FALSE,
                                    current_user.status, current_user.detail, <<>>)
                      ELSE LET r == get_user_usage_body(users, The(current_user.user), username)
                           IN Response("get_user_usage", jwt, username, "", FALSE,
                                       r.status, r.detail, r.body)
           /\ UNCHANGED <<authVars, ledgerVars, models>>

\* update_user_api_key_body that hands out one fixed key
update_user_api_key_body_fixed_key(us, caller, key) ==
    LET user == get_by_username(us, caller.username)
    IN IF user = {}
       THEN [status |-> HTTP_404_NOT_FOUND, detail |-> "User not found", users |-> us,
             body |-> <<>>]
       ELSE [status |-> HTTP_200_OK, detail |-> "",
             users |-> {IF u \in user THEN [u EXCEPT !.api_key = 1] ELSE u : u \in us},
             body |-> <<1>>]

\* body of POST /users/update_api_key for an accepted caller: the caller's row is
\* read again by username and given a new uuid4
update_user_api_key_body(us, caller, key) ==
    LET user == get_by_username(us, caller.username)
    IN IF user = {}
       THEN [status |-> HTTP_404_NOT_FOUND, detail |-> "User not found", users |-> us,
             body |-> <<>>]
       ELSE [status |-> HTTP_200_OK, detail |-> "",
             users |-> {IF u \in user THEN [u EXCEPT !.api_key = key] ELSE u : u \in us},
             body |-> <<key>>]

\* POST /users/update_api_key (api/users.py)
update_user_api_key ==
    \E jwt \in Presentable :
        LET current_user == get_current_user(users, jwt, now)
        IN IF ~current_user.ok
           THEN /\ resp' = Response("update_user_api_key", jwt, "", "", FALSE,
                                    current_user.status, current_user.detail, <<>>)
                /\ UNCHANGED <<authVars, ledgerVars, models>>
           ELSE LET r == update_user_api_key_body(users, The(current_user.user), nextKey)
                IN /\ (r.users # users => nextKey <= MaxKeys)
                   /\ users' = r.users
                   /\ nextKey' = IF r.users # users THEN nextKey + 1 ELSE nextKey
                   /\ resp' = Response("update_user_api_key", jwt,
                                       The(current_user.user).username, "", FALSE,
                                       r.status, r.detail, r.body)
                   /\ UNCHANGED <<tokens, now, ledgerVars, models>>

---------------------------------------------------------------------------
(* Password change *)

PasswordResponse(op, jwt, username, current_password, new_password, status, detail) ==
    [op |-> op, jwt |-> jwt, username |-> username, current_password |-> current_password,
     new_password |-> new_password, status |-> status, detail |-> detail, body |-> <<>>]

\* update_password that does not compare the current password
update_password_no_check(us, username, current_password, new_password) ==
    [success |-> get_by_username(us, username) # {},
     users |-> {IF u.username = username THEN [u EXCEPT !.password = new_password]
                ELSE u : u \in us}]

\* SQLAlchemyUserRepository.update_password: False when the user is missing or
\* the stored password differs from current_password, else UPDATE ... WHERE
\* username = ... and the commit
update_password(us, username, current_password, new_password) ==
    LET user == get_by_username(us, username)
    IN IF user = {} \/ The(user).password # current_password
       THEN [success |-> FALSE, users |-> us]
       ELSE [success |-> TRUE,
             users |-> {IF u.username = username THEN [u EXCEPT !.password = new_password]
                        ELSE u : u \in us}]

\* body of POST /users/password for an accepted caller
change_password_body(us, caller, current_password, new_password) ==
    LET r == update_password(us, caller.username, current_password, new_password)
    IN IF ~r.success
       THEN [status |-> HTTP_400_BAD_REQUEST, detail |-> "Invalid current password",
             users |-> us]
       ELSE [status |-> HTTP_200_OK, detail |-> "Password updated successfully",
             users |-> r.users]

\* POST /users/password (api/v1/users.py)
change_password ==
    \E jwt \in Presentable, current_password \in Passwords, new_password \in Passwords :
        LET current_user == get_current_user(users, jwt, now)
        IN IF ~current_user.ok
           THEN /\ resp' = PasswordResponse("change_password", jwt, "", current_password,
                                            new_password, current_user.status,
                                            current_user.detail)
                /\ UNCHANGED <<authVars, ledgerVars, models>>
           ELSE LET r == change_password_body(users, The(current_user.user),
                                              current_password, new_password)
                IN /\ users' = r.users
                   /\ resp' = PasswordResponse("change_password", jwt,
                                               The(current_user.user).username,
                                               current_password, new_password,
                                               r.status, r.detail)
                   /\ UNCHANGED <<nextKey, tokens, now, ledgerVars, models>>

---------------------------------------------------------------------------
(* Startup *)

\* UserService.create_user: a taken username is refused with a ValueError that
\* says the user already exists, else the row is inserted and committed
user_service_create_user(us, key, username, password, is_admin) ==
    IF get_by_username(us, username) # {}
    THEN [raised |-> "ValueError", already_exists |-> TRUE, users |-> us]
    ELSE [raised |-> "", already_exists |-> FALSE,
          users |-> repo_create_user(us, key, username, password, is_admin)]

\* startup_event whose except clause raises every ValueError again
startup_event_body_reraises(us, key) ==
    LET r == user_service_create_user(us, key, DEFAULT_ADMIN_USERNAME,
                                      DEFAULT_ADMIN_PASSWORD, TRUE)
    IN [failed |-> r.raised # "", users |-> r.users]

\* startup_event after init_db: the default admin is created; a ValueError
\* whose text has "already exists" is swallowed, any other is raised again
startup_event_body(us, key) ==
    LET r == user_service_create_user(us, key, DEFAULT_ADMIN_USERNAME,
                                      DEFAULT_ADMIN_PASSWORD, TRUE)
    IN [failed |-> r.raised # "" /\ ~r.already_exists, users |-> r.users]

\* the process is started again on the database as it is
startup_event ==
    LET r == startup_event_body(users, nextKey)
    IN /\ (r.users # users => nextKey <= MaxKeys)
       /\ users' = r.users
       /\ nextKey' = IF r.users # users THEN nextKey + 1 ELSE nextKey
       /\ resp' = Response("startup_event", ForgedToken, DEFAULT_ADMIN_USERNAME, "", FALSE,
                           0, IF r.failed THEN "failed" ELSE "started", <<>>)
       /\ UNCHANGED <<tokens, now, ledgerVars, models>>

\* GET /health (main.py): needs no token and reads no table
health_check ==
    /\ resp' = Response("health_check", ForgedToken, "", "", FALSE, HTTP_200_OK, "",
                        <<[status |-> "healthy", version |-> VERSION,
                           environment |-> ENVIRONMENT]>>)
    /\ UNCHANGED <<authVars, ledgerVars, models>>

---------------------------------------------------------------------------
(* POST /users/create, await by await *)

UserCreateRequest(username, password, is_admin) ==
    [username |-> username, password |-> password, is_admin |-> is_admin]

\* SQLAlchemyUserRepository.create_user on a table that may have got the
\* username since the caller looked: the flush sends the INSERT, which the
\* unique constraint on username refuses with an IntegrityError
create_user_flush(us, key, user) ==
    IF get_by_username(us, user.username) # {}
    THEN [raised |-> "IntegrityError", users |-> us]
    ELSE [raised |-> "", users |-> repo_create_user(us, key, user.username,
                                                    user.password, user.is_admin)]

\* create_user from the existence check's answer on: the INSERT and the
\* commit; get_session turns the IntegrityError into DatabaseError, which
\* "except ValueError" does not catch
create_user_write(us, key, user) ==
    LET r == create_user_flush(us, key, user)
    IN IF r.raised # ""
       THEN [status |-> HTTP_500_INTERNAL_SERVER_ERROR, detail |-> "Internal Server Error",
             users |-> us]
       ELSE [status |-> HTTP_200_OK, detail |-> "User created successfully",
             users |-> r.users]

\* create_user up to the answer of its existence check
create_user_select ==
    \E username \in Usernames, password \in NewPasswords, is_admin \in BOOLEAN :
        LET user == UserCreateRequest(username, password, is_admin)
        IN IF get_by_username(users, username) # {}
           THEN /\ resp' = Response("create_user", ForgedToken, username, "", FALSE,
                                    HTTP_400_BAD_REQUEST, "User already exists.", <<>>)
                /\ UNCHANGED <<authVars, ledgerVars, models>>
           ELSE /\ BagCardinality(inflight) < MaxInflight
                /\ inflight' = inflight (+) SetToBag({user})
                /\ resp' = Response("select", ForgedToken, username, "", FALSE, 0, "", <<>>)
                /\ UNCHANGED <<authVars, usage, recorded, models>>

\* create_user from there on
create_user_insert ==
    \E user \in BagToSet(inflight) :
        LET r == create_user_write(users, nextKey, user)
        IN /\ (r.users # users => nextKey <= MaxKeys)
           /\ users' = r.users
           /\ nextKey' = IF r.users # users THEN nextKey + 1 ELSE nextKey
           /\ inflight' = inflight (-) SetToBag({user})
           /\ resp' = Response("create_user", ForgedToken, user.username, "", FALSE,
                               r.status, r.detail, <<>>)
           /\ UNCHANGED <<tokens, now, usage, recorded, models>>

\* user management: requests handled one at a time
Next ==
    \/ login \/ create_user \/ read_users_me \/ read_all_users \/ remove_user
    \/ get_user_usage \/ update_user_api_key

Spec == Init /\ [][Next]_vars

\* authentication over time: tokens are issued, age and expire while users come and go
NextAuth == Tick \/ login \/ read_users_me \/ create_user \/ remove_user

SpecAuth == Init /\ [][NextAuth]_vars

\* accounts: users are created, change their passwords and are deleted
NextAccounts == login \/ create_user \/ remove_user \/ change_password

SpecAccounts == Init /\ [][NextAccounts]_vars

\* create-user requests whose awaits interleave, among logins and deletions
NextCreate == create_user_select \/ create_user_insert \/ login \/ remove_user

SpecCreate == Init /\ [][NextCreate]_vars

\* restarts of the process and health probes between requests that change
\* the stored accounts
NextStartup ==
    \/ startup_event \/ health_check \/ login \/ create_user \/ remove_user
    \/ change_password \/ update_user_api_key

SpecStartup == Init /\ [][NextStartup]_vars

---------------------------------------------------------------------------
(* Model registry requests (api/v1/models.py) *)

ModelResponse(op, jwt, model, status, detail, body) ==
    [op |-> op, jwt |-> jwt, model |-> model, status |-> status,
     detail |-> detail, body |-> body]

\* body of POST /models/create for an accepted caller: the admin check, then the
\* call of create_model_db, which is given no model_deployment_name
create_model_body(ms, caller, model) ==
    IF ~caller.is_admin
    THEN [status |-> HTTP_403_FORBIDDEN, detail |-> "Not enough permissions", models |-> ms]
    ELSE LET r == create_model_db(ms, model.model_name, model.model_type, NotPassed,
                                  model.model_endpoint, model.model_api_key, None)
         IN IF r.raised # ""
            THEN \* the TypeError leaves the handler: Internal Server Error
                 [status |-> HTTP_500_INTERNAL_SERVER_ERROR,
                  detail |-> "Internal Server Error", models |-> ms]
            ELSE IF r.model = {}
                 THEN [status |-> HTTP_400_BAD_REQUEST,
                       detail |-> "Failed to create model", models |-> ms]
                 ELSE [status |-> HTTP_200_OK, detail |-> "Model created successfully",
                       models |-> r.models]

\* POST /models/create
create_model ==
    \E jwt \in Presentable, model_name \in ModelNames, model_type \in RequestedTypes :
        LET current_user == get_current_user(users, jwt, now)
            model == ModelCreateRequest(model_name, model_type)
        IN IF ~current_user.ok
           THEN /\ resp' = ModelResponse("create_model", jwt, model,
                                         current_user.status, current_user.detail, <<>>)
                /\ UNCHANGED <<authVars, ledgerVars, models>>
           ELSE LET r == create_model_body(models, The(current_user.user), model)
                IN /\ models' = r.models
                   /\ resp' = ModelResponse("create_model", jwt, model,
                                            r.status, r.detail, <<>>)
                   /\ UNCHANGED <<authVars, ledgerVars>>

\* GET /models/all: open to every accepted caller
get_models ==
    \E jwt \in Presentable :
        LET current_user == get_current_user(users, jwt, now)
            all == get_all_models(models)
        IN /\ resp' = IF ~current_user.ok
                      THEN ModelResponse("get_models", jwt, "", current_user.status,
                                         current_user.detail, <<>>)
                      ELSE ModelResponse("get_models", jwt, "", HTTP_200_OK, "",
                                         [i \in 1..Len(all) |->
                                            [model_name |-> all[i].model_name,
                                             model_type |-> all[i].model_type]])
           /\ UNCHANGED <<authVars, ledgerVars, models>>

\* remove_model_body without the admin check
remove_model_body_no_check(ms, caller, model_name) ==
    LET r == delete_model(ms, model_name)
    IN IF ~r.success
       THEN [status |-> HTTP_404_NOT_FOUND, detail |-> "Model not found", models |-> ms]
       ELSE [status |-> HTTP_200_OK, detail |-> "Model deleted successfully",
             models |-> r.models]

\* body of DELETE /models/{model_name} for an accepted caller
remove_model_body(ms, caller, model_name) ==
    IF ~caller.is_admin
    THEN [status |-> HTTP_403_FORBIDDEN, detail |-> "Not enough permissions", models |-> ms]
    ELSE LET r == delete_model(ms, model_name)
         IN IF ~r.success
            THEN [status |-> HTTP_404_NOT_FOUND, detail |-> "Model not found", models |-> ms]
            ELSE [status |-> HTTP_200_OK, detail |-> "Model deleted successfully",
                  models |-> r.models]

\* DELETE /models/{model_name}
remove_model ==
    \E jwt \in Presentable, model_name \in ModelNames :
        LET current_user == get_current_user(users, jwt, now)
        IN IF ~current_user.ok
           THEN /\ resp' = ModelResponse("remove_model", jwt, model_name,
                                         current_user.status, current_user.detail, <<>>)
                /\ UNCHANGED <<authVars, ledgerVars, models>>
           ELSE LET r == remove_model_body(models, The(current_user.user), model_name)
                IN /\ models' = r.models
                   /\ resp' = ModelResponse("remove_model", jwt, model_name,
                                            r.status, r.detail, <<>>)
                   /\ UNCHANGED <<authVars, ledgerVars>>

\* the registry of a provisioned deployment, with a second user
InitModels ==
    /\ users = repo_create_user(SeededUsers, 2, "alice", "pw", FALSE)
    /\ nextKey = 3
    /\ tokens = {}
    /\ now = 0
    /\ resp = NoResponse
    /\ usage = {}
    /\ inflight = EmptyBag
    /\ recorded = [k \in {1, 2} \X ModelUsageType |-> 0]
    /\ models = SeededModels

NextModels == login \/ create_model \/ get_models \/ remove_model

SpecModels == InitModels /\ [][NextModels]_vars

---------------------------------------------------------------------------
(* Usage ledger: record_model_usage *)

\* the ledger is exercised once a second user has been created
InitLedger ==
    /\ users = repo_create_user(SeededUsers, 2, "alice", "pw", FALSE)
    /\ nextKey = 3
    /\ tokens = {}
    /\ now = 0
    /\ resp = NoResponse
    /\ usage = {}
    /\ inflight = EmptyBag
    /\ recorded = [k \in {1, 2} \X ModelUsageType |-> 0]
    /\ models = SeededModels

LedgerResponse(op, call, status, detail) ==
    Response(op, ForgedToken, "", "", FALSE, status, detail, <<call>>)

\* record_model_usage run to completion without another call in between
record_model_usage ==
    \E user \in users, model_id \in ModelIds, usage_count \in Counts,
       usage_type \in ModelUsageType :
        LET found == usage_matching(usage, user.id, model_id, usage_type)
            call == Call(user.id, model_id, usage_count, usage_type, found # {})
        IN /\ Started + usage_count <= MaxTotal
           /\ IF Cardinality(found) > 1
              THEN \* scalar_one_or_none raises MultipleResultsFound, which get_session
                   \* turns into DatabaseError: a server error for the caller
                   /\ resp' = LedgerResponse("record_model_usage", call,
                                             HTTP_500_INTERNAL_SERVER_ERROR,
                                             "Database operation failed")
                   /\ UNCHANGED <<authVars, ledgerVars, models>>
              ELSE /\ usage' = usage_write(usage, call, now)
                   /\ recorded' = [recorded EXCEPT ![<<user.id, usage_type>>] = @ + usage_count]
                   /\ resp' = LedgerResponse("record_model_usage", call, 0, "")
                   /\ UNCHANGED <<authVars, inflight, models>>

NextLedgerSeq == record_model_usage

SpecLedgerSeq == InitLedger /\ [][NextLedgerSeq]_vars

\* record_model_usage up to its first await: the SELECT of the existing record
record_select ==
    \E user \in users, model_id \in ModelIds,
       usage_count \in Counts, usage_type \in ModelUsageType :
        LET found == usage_matching(usage, user.id, model_id, usage_type)
            call == Call(user.id, model_id, usage_count, usage_type, found # {})
        IN /\ BagCardinality(inflight) < MaxInflight
           /\ Started + usage_count <= MaxTotal
           /\ IF Cardinality(found) > 1
              THEN /\ resp' = LedgerResponse("record_model_usage", call,
                                             HTTP_500_INTERNAL_SERVER_ERROR,
                                             "Database operation failed")
                   /\ UNCHANGED <<authVars, ledgerVars, models>>
              ELSE /\ inflight' = inflight (+) SetToBag({call})
                   /\ resp' = LedgerResponse("select", call, 0, "")
                   /\ UNCHANGED <<authVars, usage, recorded, models>>

\* record_model_usage from the SELECT's answer on: the write and the commit
record_write ==
    \E call \in BagToSet(inflight) :
           /\ usage' = usage_write(usage, call, now)
           /\ recorded' = [recorded EXCEPT ![<<call.user_id, call.usage_type>>] =
                                               @ + call.usage_count]
           /\ inflight' = inflight (-) SetToBag({call})
           /\ resp' = LedgerResponse("record_model_usage", call, 0, "")
           /\ UNCHANGED <<authVars, models>>

NextLedger == record_select \/ record_write

SpecLedger == InitLedger /\ [][NextLedger]_vars

---------------------------------------------------------------------------
(* Storage sessions: get_session (core/database.py) *)

\* what the body of "async with get_session() as session" does, step by step:
\* a write through the session, a commit, or an exception that ends it
BodyOps == {"write", "commit", "SQLAlchemyError", "Exception"}
Bodies == UNION {[1..n -> BodyOps] : n \in 0..MaxOps}

\* a session: open or closed, the table as the session sees it (the committed
\* rows and its own uncommitted writes), the table as committed, and the calls
\* made on it so far
Session(open, view, committed, events) ==
    [open |-> open, view |-> view, committed |-> committed, events |-> events]

\* async_session(): a new session on the committed table
async_session(committed) == Session(TRUE, committed, committed, <<"open">>)

\* session.rollback(): the uncommitted writes are dropped
rollback(session) ==
    Session(session.open, session.committed, session.committed,
            Append(session.events, "rollback"))

\* session.close(): the connection is released; what was not committed is gone
close(session) ==
    Session(FALSE, session.committed, session.committed, Append(session.events, "close"))

\* the write a body makes: the ledger write of record_model_usage for one triple
body_write(view, t) ==
    usage_write(view, Call(1, 1, 3, "PROMPT", usage_matching(view, 1, 1, "PROMPT") # {}), t)

\* the body run on the session up to its return or its first exception
RECURSIVE run_body(_, _, _)
run_body(ops, session, t) ==
    IF ops = <<>> THEN [exit |-> "return", session |-> session]
    ELSE CASE Head(ops) = "write" ->
                run_body(Tail(ops),
                         Session(session.open, body_write(session.view, t),
                                 session.committed, Append(session.events, "write")), t)
           [] Head(ops) = "commit" ->
                run_body(Tail(ops),
                         Session(session.open, session.view, session.view,
                                 Append(session.events, "commit")), t)
           [] OTHER -> [exit |-> Head(ops), session |-> session]

\* get_session that closes the session only when the body returns
get_session_exit_close_on_return(r) ==
    IF r.exit = "SQLAlchemyError"
    THEN [raised |-> "DatabaseError", session |-> rollback(r.session)]
    ELSE IF r.exit = "Exception"
         THEN [raised |-> r.exit, session |-> r.session]
         ELSE [raised |-> "", session |-> close(r.session)]

\* get_session once the body has ended as r: a SQLAlchemyError is answered
\* with a rollback and raised as DatabaseError, any other exception passes
\* through, and the finally clause closes the session on each of the paths
get_session_exit(r) ==
    IF r.exit = "SQLAlchemyError"
    THEN [raised |-> "DatabaseError", session |-> close(rollback(r.session))]
    ELSE IF r.exit = "Exception"
         THEN [raised |-> r.exit, session |-> close(r.session)]
         ELSE [raised |-> "", session |-> close(r.session)]

\* get_session around a body
get_session(ops, committed, t) ==
    get_session_exit(run_body(ops, async_session(committed), t))

\* the number of writes a body makes
RECURSIVE Writes(_)
Writes(ops) ==
    IF ops = <<>> \/ Head(ops) \in {"SQLAlchemyError", "Exception"} THEN 0
    ELSE (IF Head(ops) = "write" THEN 1 ELSE 0) + Writes(Tail(ops))

\* a unit of work: one session from get_session and a body run on it
unit_of_work ==
    \E ops \in Bodies :
        LET r == get_session(ops, usage, now)
        IN /\ SumCounts(usage) + 3 * Writes(ops) <= MaxTotal
           /\ usage' = r.session.committed
           /\ resp' = [op |-> "unit_of_work", ops |-> ops, raised |-> r.raised,
                       session |-> r.session, status |-> 0, detail |-> "", body |-> <<>>]
           /\ UNCHANGED <<authVars, inflight, recorded, models>>

NextSession == unit_of_work

SpecSession == InitLedger /\ [][NextSession]_vars

---------------------------------------------------------------------------
(* Model gateway: POST /api/call (api/v1/llm_api.py, services/azure_openai.py) *)

\* keys a client can present: 0 was never issued
ApiKeys == 0..MaxKeys

PromptTokens == {3}
CompletionTokens == {2}
\* usage.prompt_tokens_details: None (the empty set) or an object whose
\* cached_tokens is None (the empty set) or a number
PromptTokensDetails == {{}} \cup {{[cached_tokens |-> c]} : c \in {{}, {3}}}

\* response.usage: None (the empty set) or the token counts
CompletionUsage ==
    {{}} \cup {{[prompt_tokens |-> p, completion_tokens |-> c, prompt_tokens_details |-> d]} :
                 p \in PromptTokens, c \in CompletionTokens, d \in PromptTokensDetails}

\* what client.chat.completions.create does: raise, or answer with a usage
\* report and a message content
ProviderAnswers ==
    {[raised |-> TRUE, usage |-> {}, content |-> None]}
    \cup {[raised |-> FALSE, usage |-> u, content |-> "text"] : u \in CompletionUsage}
    \cup {[raised |-> FALSE, usage |-> u, content |-> None] :
            u \in {v \in CompletionUsage : \A w \in v : w.prompt_tokens_details = {}}}

\* record_model_usage as one call: the SELECT, which raises on several rows of
\* the triple, then the write and the commit
record_once(usg, user_id, model_id, usage_count, usage_type, t) ==
    LET found == usage_matching(usg, user_id, model_id, usage_type)
    IN IF Cardinality(found) > 1
       THEN [ok |-> FALSE, usage |-> usg]
       ELSE [ok |-> TRUE,
             usage |-> usage_write(usg, Call(user_id, model_id, usage_count,
                                             usage_type, found # {}), t)]

\* the record_model_usage calls of call_azure_openai in their order, each
\* committed before the next starts; stops at the first that raises
RECURSIVE record_each(_, _, _, _, _)
\* what follows a record_model_usage call that ended as r: its exception, or
\* the calls for the kinds that remain
record_rest(r, user_id, model_id, kinds, t) ==
    IF ~r.ok THEN r ELSE record_each(r.usage, user_id, model_id, kinds, t)

record_each(usg, user_id, model_id, kinds, t) ==
    IF kinds = <<>> THEN [ok |-> TRUE, usage |-> usg]
    ELSE record_rest(record_once(usg, user_id, model_id, Head(kinds).usage_count,
                                 Head(kinds).usage_type, t),
                     user_id, model_id, Tail(kinds), t)

\* the kinds call_azure_openai records for an answer, with their counts: CACHED
\* when the usage has prompt_tokens_details (cached_tokens or 0), then
\* COMPLETION and PROMPT whenever there is a usage
recorded_kinds(answer) ==
    IF answer.usage = {} THEN <<>>
    ELSE LET u == The(answer.usage)
             cached == IF u.prompt_tokens_details = {} THEN <<>>
                       ELSE LET c == The(u.prompt_tokens_details).cached_tokens
                            IN <<[usage_type |-> "CACHED",
                                  usage_count |-> IF c = {} THEN 0 ELSE The(c)]>>
         IN cached \o <<[usage_type |-> "COMPLETION", usage_count |-> u.completion_tokens],
                        [usage_type |-> "PROMPT", usage_count |-> u.prompt_tokens]>>

\* the end of call_azure_openai once the provider has answered and the usage
\* records ended as r: the message content, or the wrapped exception
azure_openai_result(r, answer) ==
    [raised |-> ~r.ok,
     detail |-> IF r.ok THEN "" ELSE "Failed to call Azure OpenAI API",
     response |-> IF r.ok THEN answer.content ELSE None,
     usage |-> r.usage, attempts |-> 1]

\* call_azure_openai that tries the provider a second time when it raises
call_azure_openai_retrying(usg, answer, user_id, model_id, t) ==
    IF answer.raised
    THEN [raised |-> TRUE, detail |-> "Failed to call Azure OpenAI API",
          response |-> None, usage |-> usg, attempts |-> 2]
    ELSE azure_openai_result(
             record_each(usg, user_id, model_id, recorded_kinds(answer), t), answer)

\* call_azure_openai: one await of client.chat.completions.create, then the
\* usage records; every exception is wrapped and raised again
call_azure_openai(usg, answer, user_id, model_id, t) ==
    IF answer.raised
    THEN [raised |-> TRUE, detail |-> "Failed to call Azure OpenAI API",
          response |-> None, usage |-> usg, attempts |-> 1]
    ELSE azure_openai_result(
             record_each(usg, user_id, model_id, recorded_kinds(answer), t), answer)

\* SQLAlchemyUserRepository.get_by_api_key: scalar_one_or_none, as a set
get_by_api_key(us, api_key) == {u \in us : u.api_key = api_key}

APICallRequest(model_name, user_api_key) ==
    [model_name |-> model_name, user_api_key |-> user_api_key]

CallResult(status, detail, usg, attempts, user, response) ==
    [status |-> status, detail |-> detail, usage |-> usg, attempts |-> attempts,
     user |-> user, response |-> response]

\* the try block of call_api after call_azure_openai ended as r: its exception
\* passes through, its response is returned
call_api_return(r, user) ==
    IF r.raised
    THEN [raised |-> "Exception"]
         @@ CallResult(0, r.detail, r.usage, r.attempts, user, None)
    ELSE [raised |-> ""]
         @@ CallResult(HTTP_200_OK, "", r.usage, r.attempts, user, r.response)

\* call_api_try without the match on the model type: every model that is found
\* is called as an Azure OpenAI deployment
call_api_try_any_type(us, ms, usg, request, answer, t) ==
    LET user == get_by_api_key(us, request.user_api_key)
        model == get_model_by_name(ms, request.model_name)
    IN IF user = {}
       THEN [raised |-> "HTTPException"]
            @@ CallResult(HTTP_401_UNAUTHORIZED, "Invalid API key", usg, 0, {}, None)
       ELSE IF model.raised # ""
       THEN [raised |-> model.raised]
            @@ CallResult(0, "validation error for ModelDTO", usg, 0, user, None)
       ELSE IF model.model = {}
       THEN [raised |-> "HTTPException"]
            @@ CallResult(HTTP_404_NOT_FOUND, "Model not found", usg, 0, user, None)
       ELSE call_api_return(
                call_azure_openai(usg, answer, The(user).id, The(model.model).id, t), user)

\* the try block of call_api: what it returns or raises (raised names the
\* exception, status the one an HTTPException carries)
call_api_try(us, ms, usg, request, answer, t) ==
    LET user == get_by_api_key(us, request.user_api_key)
        model == get_model_by_name(ms, request.model_name)
    IN IF user = {}
       THEN [raised |-> "HTTPException"]
            @@ CallResult(HTTP_401_UNAUTHORIZED, "Invalid API key", usg, 0, {}, None)
       ELSE IF model.raised # ""
       THEN [raised |-> model.raised]
            @@ CallResult(0, "validation error for ModelDTO", usg, 0, user, None)
       ELSE IF model.model = {}
       THEN [raised |-> "HTTPException"]
            @@ CallResult(HTTP_404_NOT_FOUND, "Model not found", usg, 0, user, None)
       ELSE IF The(model.model).model_type = "AZURE_OPENAI"
       THEN call_api_return(
                call_azure_openai(usg, answer, The(user).id, The(model.model).id, t), user)
       ELSE [raised |-> "HTTPException"]
            @@ CallResult(HTTP_400_BAD_REQUEST, "Unsupported model type", usg, 0, user, None)

\* the except clause and the response model of call_api applied to what the
\* try block ended as: "except Exception" catches whatever it raises, the
\* HTTPExceptions too, and raises 500 with str(e) as the detail; a returned
\* body whose response is None fails the Dict[str, str] response model
call_api_except(r) ==
    IF r.raised # ""
    THEN CallResult(HTTP_500_INTERNAL_SERVER_ERROR, r.detail, r.usage, r.attempts,
                    r.user, None)
    ELSE IF r.response = None
         THEN CallResult(HTTP_500_INTERNAL_SERVER_ERROR, "Internal Server Error",
                         r.usage, r.attempts, r.user, None)
         ELSE CallResult(HTTP_200_OK, "", r.usage, r.attempts, r.user, r.response)

\* call_api: the try block, then its except clause
call_api_body(us, ms, usg, request, answer, t) ==
    call_api_except(call_api_try(us, ms, usg, request, answer, t))

RECURSIVE SumKinds(_)
SumKinds(kinds) ==
    IF kinds = <<>> THEN 0 ELSE Head(kinds).usage_count + SumKinds(Tail(kinds))

\* history: the counts a call added to the ledger, per (user_id, usage_type)
Recorded(before, after, rec) ==
    [k \in DOMAIN rec |->
        rec[k] + SumCounts({r \in after : r.user_id = k[1] /\ r.usage_type = k[2]})
               - SumCounts({r \in before : r.user_id = k[1] /\ r.usage_type = k[2]})]

\* the answers the provider may give to a request: drawn only when the request
\* gets as far as the provider
AnswersTo(request) ==
    IF call_api_try(users, models, usage, request,
                    CHOOSE a \in ProviderAnswers : a.raised, now).attempts = 0
    THEN {CHOOSE a \in ProviderAnswers : a.raised}
    ELSE ProviderAnswers

\* POST /api/call, with the provider's answer
call_api ==
    \E model_name \in ModelNames, user_api_key \in ApiKeys :
      \E answer \in AnswersTo(APICallRequest(model_name, user_api_key)) :
        LET request == APICallRequest(model_name, user_api_key)
            r == call_api_body(users, models, usage, request, answer, now)
        IN /\ SumRecorded + SumKinds(recorded_kinds(answer)) <= MaxCallTotal
           /\ usage' = r.usage
           /\ recorded' = Recorded(usage, r.usage, recorded)
           /\ resp' = [op |-> "call_api", request |-> request,
                       \* the provider's answer, when the provider was called
                       answer |-> IF r.attempts = 0 THEN {} ELSE {answer},
                       status |-> r.status, detail |-> r.detail,
                       attempts |-> r.attempts, user |-> r.user,
                       body |-> IF r.status = HTTP_200_OK THEN <<r.response>> ELSE <<>>]
           /\ UNCHANGED <<authVars, inflight, models>>

\* model calls, one request at a time
NextCall == call_api

SpecCall == InitModels /\ [][NextCall]_vars

\* model calls by users who also rotate their keys and read their usage
NextKeys == login \/ update_user_api_key \/ call_api \/ get_user_usage

SpecKeys == InitModels /\ [][NextKeys]_vars

---------------------------------------------------------------------------
(* Usage aggregate: get_usage_by_user_name_and_date_range over time *)

\* the optional bounds of a date range
Dates == {NoDate, {ACCESS_TOKEN_EXPIRE_MINUTES}}

\* a call of the aggregate for a user and an optional date range
read_usage ==
    \E username \in Usernames, start_date \in Dates, end_date \in Dates :
        /\ resp' = [op |-> "read_usage", username |-> username,
                    start_date |-> start_date, end_date |-> end_date,
                    body |-> get_usage_by_user_name_and_date_range(
                                users, usage, username, start_date, end_date)]
        /\ UNCHANGED <<authVars, ledgerVars, models>>

NextUsage == Tick \/ call_api \/ read_usage

SpecUsage == InitModels /\ [][NextUsage]_vars

---------------------------------------------------------------------------
(* Properties *)

\* the caller a request's token resolves to, as a set (empty when rejected)
Caller(us, jwt, t) == get_current_user(us, jwt, t).user

IsAdminCaller(us, jwt, t) == \E u \in Caller(us, jwt, t) : u.is_admin

\* the aggregate GET /usage reports for a user, without a date range
Aggregate(u) == get_usage_by_user_name_and_date_range(users, usage, u.username, NoDate, NoDate)

\* C1: when record_model_usage calls run one after another, the aggregate
\* reported for every user and usage kind equals the sum of the counts recorded
\* for that user and kind (5 then 3 of COMPLETION gives 8); as the sum of a kind
\* only grows by increments of that kind, the other kinds keep their values.
C1_AggregateIsSumOfIncrements ==
    \A u \in users, k \in ModelUsageType : Aggregate(u)[k] = recorded[<<u.id, k>>]

C1_Witness ==
    /\ resp.op = "record_model_usage"
    /\ resp.body[1].usage_type = "COMPLETION"
    /\ resp.body[1].usage_count = 3
    /\ \E u \in users :
          /\ u.id = resp.body[1].user_id
          /\ Aggregate(u)["COMPLETION"] = 8
          /\ Aggregate(u)["PROMPT"] = 3

\* C2: in every reachable state the usage ledger holds at most one row per
\* (user_id, model_id, usage_type) triple, also when record_model_usage calls
\* for the same triple interleave between their SELECT and their write.
C2_OneRowPerTriple ==
    \A r1, r2 \in usage :
        (r1.user_id = r2.user_id /\ r1.model_id = r2.model_id
         /\ r1.usage_type = r2.usage_type) => r1 = r2

C4_LoginUniformFailure ==
    resp.op = "login" =>
        LET match == \E u \in users :
                        u.username = resp.username /\ u.password = resp.password
        IN /\ (resp.status = HTTP_200_OK) <=> match
           /\ ~match => /\ resp.status = HTTP_401_UNAUTHORIZED
                        /\ resp.detail = "Incorrect username or password"
                        /\ resp.body = <<>>

C4_Witness ==
    /\ resp.op = "login"
    /\ resp.status = HTTP_401_UNAUTHORIZED
    /\ \E u \in users : u.username = resp.username /\ u.password # resp.password

IssuedJwt(jwt) == \E tk \in tokens : tk.jwt = jwt

\* C5 as stated: a token issued at login for user U resolves back to U on every
\* request made before its exp, and every request made after exp is rejected
\* with Unauthorized.
C5_ResolvesUntilExpiry ==
    (resp.op = "read_users_me" /\ IssuedJwt(resp.jwt)) =>
        /\ now < resp.jwt.exp =>
              /\ resp.status = HTTP_200_OK
              /\ resp.body[1].username = resp.jwt.sub
        /\ now > resp.jwt.exp => resp.status = HTTP_401_UNAUTHORIZED

\* C5, amended: on a request made before exp the token resolves to the user
\* stored under U's username when there is one, and is rejected with
\* Unauthorized ("User not found") when there is none; every request made after
\* exp is rejected with Unauthorized.
C5_ResolvesWhileStoredUntilExpiry ==
    (resp.op = "read_users_me" /\ IssuedJwt(resp.jwt)) =>
        LET stored == get_by_username(users, resp.jwt.sub)
        IN /\ (now < resp.jwt.exp /\ stored # {}) =>
                 /\ resp.status = HTTP_200_OK
                 /\ resp.body = <<UserMeResponse(The(stored))>>
           /\ (now < resp.jwt.exp /\ stored = {}) =>
                 /\ resp.status = HTTP_401_UNAUTHORIZED
                 /\ resp.detail = "User not found"
           /\ now > resp.jwt.exp =>
                 /\ resp.status = HTTP_401_UNAUTHORIZED
                 /\ resp.body = <<>>

C5_Witness ==
    /\ resp.op = "read_users_me"
    /\ IssuedJwt(resp.jwt)
    /\ now > resp.jwt.exp
    /\ get_by_username(users, resp.jwt.sub) # {}
    /\ resp.status = HTTP_401_UNAUTHORIZED

\* the token was issued, and every row it was issued to has been deleted
IssuedToDeleted(jwt) ==
    /\ IssuedJwt(jwt)
    /\ \A tk \in tokens : tk.jwt = jwt => ~\E u \in users : u.born = tk.born

\* C6: once a user has been deleted, every later request presenting an
\* unexpired token issued to that user before the deletion is rejected with
\* Unauthorized and reads nothing on behalf of a user.
C6_DeletedUserTokenRejected ==
    (resp.op = "read_users_me" /\ IssuedToDeleted(resp.jwt)) =>
        (resp.status = HTTP_401_UNAUTHORIZED /\ resp.body = <<>>)

\* C7: a create-user request whose caller is not an authenticated admin is
\* rejected, and the users table is unchanged by it.
C7_CreateNeedsAdmin ==
    [][(resp'.op = "create_user" /\ ~IsAdminCaller(users, resp'.jwt, now))
        => (resp'.status # HTTP_200_OK /\ users' = users)]_vars

\* C8: a DELETE whose target username is the caller's own is rejected for
\* every caller, admin included, and the caller's record is still stored.
C8_NoSelfDelete ==
    [][(resp'.op = "remove_user"
        /\ \E c \in Caller(users, resp'.jwt, now) : c.username = resp'.username)
        => (/\ resp'.status # HTTP_200_OK
            /\ get_by_username(users', resp'.username) = get_by_username(users, resp'.username))]_vars

\* C9: GET /users/all by a non-admin returns Forbidden and discloses no user;
\* by an admin it returns exactly one entry for every user currently stored.
C9_ListAllAdminOnly ==
    resp.op = "read_all_users" =>
        LET caller == Caller(users, resp.jwt, now)
        IN /\ caller = {} => (resp.status = HTTP_401_UNAUTHORIZED /\ resp.body = <<>>)
           /\ (caller # {} /\ ~IsAdminCaller(users, resp.jwt, now)) =>
                 (resp.status = HTTP_403_FORBIDDEN /\ resp.body = <<>>)
           /\ IsAdminCaller(users, resp.jwt, now) =>
                 /\ resp.status = HTTP_200_OK
                 /\ Len(resp.body) = Cardinality(users)
                 /\ \A u \in users :
                       Cardinality({i \in 1..Len(resp.body) :
                                      resp.body[i] = UserMeResponse(u)}) = 1

C9_Witness ==
    /\ resp.op = "read_all_users"
    /\ resp.status = HTTP_403_FORBIDDEN
    /\ Cardinality(users) > 1

\* C10: a delete request for a username that is not stored never succeeds and
\* leaves the users table unchanged; for a caller that passes the admin check
\* the answer is NotFound (404).
C10_DeleteMissingIsNotFound ==
    [][(resp'.op = "remove_user" /\ get_by_username(users, resp'.username) = {})
        => (/\ users' = users
            /\ resp'.status \in {HTTP_401_UNAUTHORIZED, HTTP_403_FORBIDDEN,
                                  HTTP_404_NOT_FOUND}
            /\ IsAdminCaller(users, resp'.jwt, now) =>
                  (resp'.status = HTTP_404_NOT_FOUND /\ resp'.detail = "User not found"))]_vars

C10_Witness ==
    /\ resp.op = "remove_user"
    /\ resp.status = HTTP_404_NOT_FOUND
    /\ get_by_username(users, resp.username) = {}
    /\ users # {}

\* C11: a create or delete model request from an authenticated non-admin is
\* answered Forbidden and leaves the registry unchanged; listing models is
\* allowed to every authenticated user and changes nothing; so the registry
\* changes only in a step taken for an admin.
C11_RegistryMutatedOnlyByAdmin ==
    [][/\ (/\ resp'.op \in {"create_model", "remove_model"}
           /\ Caller(users, resp'.jwt, now) # {}
           /\ ~IsAdminCaller(users, resp'.jwt, now))
          => (resp'.status = HTTP_403_FORBIDDEN /\ models' = models)
       /\ (resp'.op = "get_models" /\ Caller(users, resp'.jwt, now) # {})
          => (/\ resp'.status = HTTP_200_OK
              /\ models' = models
              /\ {resp'.body[i].model_name : i \in 1..Len(resp'.body)}
                    = {m.model_name : m \in models})
       /\ models' # models => IsAdminCaller(users, resp'.jwt, now)]_vars

C11_Witness ==
    /\ resp.op = "remove_model"
    /\ resp.status = HTTP_403_FORBIDDEN
    /\ \E m \in models : m.model_name = resp.model

\* C12: an admin's create-model request with an unused name adds exactly one
\* record carrying the supplied name, type, endpoint, deployment name and
\* provider key, which get_model_by_name then returns; with a taken name it
\* fails with Conflict (409) and the registry is unchanged; model names are
\* unique in every state.
C12_AdminCreateAddsIffNameUnused ==
    [][/\ (resp'.op = "create_model" /\ IsAdminCaller(users, resp'.jwt, now)) =>
            LET model == resp'.model
                taken == \E m \in models : m.model_name = model.model_name
            IN /\ ~taken =>
                    /\ resp'.status = HTTP_200_OK
                    /\ \E m \in models' :
                          /\ models' = models \cup {m}
                          /\ m \notin models
                          /\ m.model_name = model.model_name
                          /\ m.model_type = model.model_type
                          /\ m.model_endpoint = model.model_endpoint
                          /\ m.model_deployment_name = model.model_deployment_name
                          /\ m.model_api_key = model.model_api_key
                          /\ get_model_by_name(models', model.model_name).model = {m}
               /\ taken => (resp'.status = 409 /\ models' = models)
       /\ \A m1, m2 \in models' : m1.model_name = m2.model_name => m1 = m2]_vars

\* the ledger counter of a (user, model, usage kind) triple
Counter(usg, user_id, model_id, k) == SumCounts(usage_matching(usg, user_id, model_id, k))

\* the count of a usage kind a provider answer reports; 0 when it is missing
Reported(answer, k) ==
    IF answer.usage = {} THEN 0
    ELSE LET u == The(answer.usage)
         IN CASE k = "PROMPT" -> u.prompt_tokens
              [] k = "COMPLETION" -> u.completion_tokens
              [] k = "CACHED" ->
                    IF u.prompt_tokens_details = {} THEN 0
                    ELSE LET c == The(u.prompt_tokens_details).cached_tokens
                         IN IF c = {} THEN 0 ELSE The(c)

\* C13: after a successful model call whose provider answer reports token
\* counts, the ledger counter of every usage kind for the calling user and the
\* model has grown by exactly the reported count of that kind, and a kind whose
\* count is missing or zero has got no ledger row.
C13_LedgerGrowsByReportedCounts ==
    [][(/\ resp'.op = "call_api"
        /\ resp'.status = HTTP_200_OK
        /\ \E a \in resp'.answer : a.usage # {}) =>
          LET a == The(resp'.answer)
              user_id == The(resp'.user).id
              model_id == The(get_model_by_name(models, resp'.request.model_name).model).id
          IN \A k \in ModelUsageType :
                /\ Counter(usage', user_id, model_id, k)
                      = Counter(usage, user_id, model_id, k) + Reported(a, k)
                /\ Reported(a, k) = 0 =>
                      usage_matching(usage', user_id, model_id, k)
                         = usage_matching(usage, user_id, model_id, k)]_vars

\* C14: on POST /api/call an API key that matches no user is answered 401, a
\* model name that is not in the registry 404 and a model of an unsupported
\* type 400; none of them is answered with a server error.
C14_CallErrorsAreClientErrors ==
    [][resp'.op = "call_api" =>
          LET user == get_by_api_key(users, resp'.request.user_api_key)
              model == {m \in models : m.model_name = resp'.request.model_name}
          IN /\ user = {} => resp'.status = HTTP_401_UNAUTHORIZED
             /\ (user # {} /\ model = {}) => resp'.status = HTTP_404_NOT_FOUND
             /\ (user # {} /\ \E m \in model : m.model_type # "AZURE_OPENAI")
                   => resp'.status = HTTP_400_BAD_REQUEST]_vars

C16_AggregateSumsPerKindInRange ==
    resp.op = "read_usage" =>
        /\ DOMAIN resp.body = {"PROMPT", "COMPLETION", "CACHED"}
        /\ \A k \in DOMAIN resp.body :
              LET rows == {r \in usage :
                             /\ \E u \in users : u.username = resp.username /\ u.id = r.user_id
                             /\ r.usage_type = k
                             /\ \A d \in resp.start_date : d <= r.created_at
                             /\ \A d \in resp.end_date : r.created_at <= d}
              IN /\ resp.body[k] = SumCounts(rows)
                 /\ rows = {} => resp.body[k] = 0

C16_Witness ==
    /\ resp.op = "read_usage"
    /\ resp.start_date = NoDate
    /\ resp.end_date # NoDate
    /\ \E u \in users, r1, r2 \in usage :
          /\ u.username = resp.username
          /\ r1.user_id = u.id /\ r2.user_id = u.id
          /\ r1.usage_type = "COMPLETION" /\ r2.usage_type = "COMPLETION"
          /\ r1.model_id # r2.model_id
          /\ r1.created_at <= The(resp.end_date)
          /\ r2.created_at <= The(resp.end_date)
          /\ resp.body["COMPLETION"] = r1.usage_count + r2.usage_count
          /\ resp.body["CACHED"] = 0

\* C17: a usage request for username X from an authenticated non-admin whose
\* username is not X is answered Forbidden and discloses nothing, whether or
\* not a user X is stored; usage is disclosed only to X or to an admin.
C17_UsageOnlyForSelfOrAdmin ==
    resp.op = "get_user_usage" =>
        LET caller == Caller(users, resp.jwt, now)
        IN /\ (\E c \in caller : ~c.is_admin /\ c.username # resp.username)
                 => (resp.status = HTTP_403_FORBIDDEN /\ resp.body = <<>>)
           /\ resp.body # <<>>
                 => \E c \in caller : c.is_admin \/ c.username = resp.username

C17_Witness ==
    /\ resp.op = "get_user_usage"
    /\ resp.status = HTTP_403_FORBIDDEN
    /\ get_by_username(users, resp.username) = {}

\* the total of an aggregate over the usage kinds
Total(aggregate_by_type) ==
    aggregate_by_type["PROMPT"] + aggregate_by_type["COMPLETION"] + aggregate_by_type["CACHED"]

\* C18: GET /users/usage/{username} of the running application reports a
\* current usage equal to the ledger's aggregate for that user, that is to what
\* the user's model calls have recorded so far, not a fixed value.
C18_ReportedUsageIsLedgerAggregate ==
    (resp.op = "get_user_usage" /\ resp.status = HTTP_200_OK) =>
        \A u \in get_by_username(users, resp.username) :
            /\ resp.body[1].current_usage = Total(Aggregate(u))
            /\ resp.body[1].current_usage
                  = recorded[<<u.id, "PROMPT">>] + recorded[<<u.id, "COMPLETION">>]
                    + recorded[<<u.id, "CACHED">>]

\* C19: in every state no two users share an api_key: the key of a newly
\* created user and the key a rotation produces differ from the key of every
\* other user.
C19_ApiKeysUnique ==
    \A u1, u2 \in users : u1.api_key = u2.api_key => u1 = u2

C19_Witness ==
    /\ resp.op = "update_user_api_key"
    /\ resp.status = HTTP_200_OK
    /\ Cardinality(users) > 1
    /\ \E u \in users : u.username = resp.username /\ u.api_key = resp.body[1]
                        /\ u.api_key # u.born

\* C20: a rotation replaces the caller's key and leaves the api_key of every
\* other user as it was; afterwards a model call presenting a key that was
\* rotated away is rejected as an invalid key (401, the provider not called),
\* and a call presenting a user's current key is attributed to that user.
C20_RotationRetiresOldKey ==
    [][/\ (resp'.op = "update_user_api_key" /\ resp'.status = HTTP_200_OK) =>
            /\ \A u \in users : u.username # resp'.username => u \in users'
            /\ \E u \in users, v \in users' :
                  /\ u.username = resp'.username /\ v.id = u.id
                  /\ v.api_key # u.api_key
                  /\ v.api_key = resp'.body[1]
       /\ resp'.op = "call_api" =>
            LET key == resp'.request.user_api_key
            IN /\ (key \in 1..(nextKey - 1) /\ get_by_api_key(users, key) = {}) =>
                     /\ resp'.status = HTTP_401_UNAUTHORIZED
                     /\ resp'.attempts = 0
                     /\ usage' = usage
               /\ \A u \in get_by_api_key(users, key) :
                     /\ resp'.user = {u}
                     /\ \A r \in usage' \ usage : r.user_id = u.id]_vars

\* C21 as stated: change_password replaces the caller's stored password iff
\* the supplied current password equals the stored one; on a mismatch it fails
\* and the stored password is unchanged; after a success authenticate with the
\* new password succeeds and with the old password fails, and no other user's
\* password changes.
C21_OldPasswordRetired ==
    [][(resp'.op = "change_password" /\ Caller(users, resp'.jwt, now) # {}) =>
          LET c == The(Caller(users, resp'.jwt, now))
          IN /\ resp'.current_password # c.password =>
                   (resp'.status # HTTP_200_OK /\ users' = users)
             /\ resp'.current_password = c.password =>
                   /\ resp'.status = HTTP_200_OK
                   /\ authenticate_user(users', c.username, resp'.new_password) # {}
                   /\ authenticate_user(users', c.username, c.password) = {}
                   /\ \A u \in users : u.username # c.username => u \in users']_vars

\* C21, amended: as stated, except that authenticate with the old password
\* fails after a success only when the new password differs from the old one;
\* a mismatch is answered 400 "Invalid current password".
C21_PasswordReplacedIffCurrentMatches ==
    [][(resp'.op = "change_password" /\ Caller(users, resp'.jwt, now) # {}) =>
          LET c == The(Caller(users, resp'.jwt, now))
          IN /\ resp'.current_password # c.password =>
                   /\ resp'.status = HTTP_400_BAD_REQUEST
                   /\ resp'.detail = "Invalid current password"
                   /\ users' = users
             /\ resp'.current_password = c.password =>
                   /\ resp'.status = HTTP_200_OK
                   /\ users' = (users \ {c}) \cup {[c EXCEPT !.password = resp'.new_password]}
                   /\ authenticate_user(users', c.username, resp'.new_password) # {}
                   /\ resp'.new_password # c.password =>
                         authenticate_user(users', c.username, c.password) = {}
                   /\ \A u \in users : u.username # c.username => u \in users']_vars

C21_Witness ==
    /\ resp.op = "change_password"
    /\ resp.status = HTTP_200_OK
    /\ resp.current_password # resp.new_password
    /\ authenticate_user(users, resp.username, resp.new_password) # {}
    /\ \E u \in users : u.username # resp.username /\ u.password = resp.current_password

C23_HealthBodyIsStatusHealthy ==
    resp.op = "health_check" =>
        /\ resp.status = HTTP_200_OK
        /\ resp.body = <<[status |-> "healthy"]>>

\* the body up to its last commit that precedes the first exception
RECURSIVE CommittedPart(_)
CommittedPart(ops) ==
    IF ops = <<>> THEN <<>>
    ELSE IF \E i \in 1..Len(ops) : ops[i] \in {"SQLAlchemyError", "Exception"}
         THEN CommittedPart(SubSeq(ops, 1, (CHOOSE i \in 1..Len(ops) :
                                 /\ ops[i] \in {"SQLAlchemyError", "Exception"}
                                 /\ \A j \in 1..(i - 1) :
                                       ops[j] \notin {"SQLAlchemyError", "Exception"}) - 1))
         ELSE IF ops[Len(ops)] = "commit" THEN ops
              ELSE CommittedPart(SubSeq(ops, 1, Len(ops) - 1))

\* the ledger after n writes of a body
RECURSIVE AfterWrites(_, _, _)
AfterWrites(usg, n, t) ==
    IF n = 0 THEN usg ELSE AfterWrites(body_write(usg, t), n - 1, t)

\* C24: a session opened through get_session is closed on every exit path of
\* the unit of work (return, storage error, any other exception); when the body
\* raises a storage error the rollback comes before the close; afterwards the
\* session is not open and the table holds the writes the body committed and
\* none of those it left uncommitted.
C24_SessionClosedOnEveryPath ==
    [][resp'.op = "unit_of_work" =>
          LET session == resp'.session
              events == session.events
              n == Len(events)
          IN /\ ~session.open
             /\ events[n] = "close"
             /\ \A i \in 1..(n - 1) : events[i] # "close"
             /\ (\E i \in 1..Len(resp'.ops) :
                    /\ resp'.ops[i] = "SQLAlchemyError"
                    /\ \A j \in 1..(i - 1) : resp'.ops[j] \in {"write", "commit"})
                  => (events[n - 1] = "rollback" /\ resp'.raised = "DatabaseError")
             /\ usage' = AfterWrites(usage, Writes(CommittedPart(resp'.ops)), now)
             /\ session.view = usage']_vars

C24_Witness ==
    /\ resp.op = "unit_of_work"
    /\ resp.ops = <<"write", "SQLAlchemyError">>
    /\ resp.raised = "DatabaseError"
    /\ ~resp.session.open
    /\ SumCounts(usage) = 3

\* C25: no increment is lost under concurrency: a record_model_usage call that
\* found the row of its triple adds exactly its count to that row as it is at
\* the time of the write, whatever other calls have written since its SELECT,
\* and leaves every other row alone; so two calls with counts c1 and c2 that
\* interleave on a row at v leave it at v + c1 + c2.
C25_NoLostIncrement ==
    [][(resp'.op = "record_model_usage" /\ resp'.status = 0 /\ resp'.body[1].found) =>
          LET call == resp'.body[1]
              rows == usage_matching(usage, call.user_id, call.model_id, call.usage_type)
          IN Cardinality(rows) = 1 =>
                usage' = (usage \ rows)
                         \cup {[r EXCEPT !.usage_count = r.usage_count + call.usage_count] :
                                 r \in rows}]_vars

\* two calls that found the row at 3 have interleaved: the one of 5 has
\* written, the one of 3 selected before that write and has yet to write
C25_Witness ==
    /\ resp.op = "record_model_usage"
    /\ resp.body[1].found
    /\ resp.body[1].usage_count = 5
    /\ \E c \in BagToSet(inflight) :
          /\ c.found /\ c.usage_count = 3
          /\ c.user_id = resp.body[1].user_id /\ c.model_id = resp.body[1].model_id
          /\ c.usage_type = resp.body[1].usage_type
          /\ \E r \in usage :
                /\ usage_matching(usage, c.user_id, c.model_id, c.usage_type) = {r}
                /\ r.usage_count = 8

\* C26: on the model-call endpoint the steps happen in the order API-key
\* check, model lookup, upstream call, ledger update: for a request whose key
\* matches no user (answered so whatever the model), whose model does not exist
\* or whose model type is unsupported, the provider is not called and the
\* ledger is unchanged; the ledger changes only in a request in which the
\* provider was called once and answered with a usage report.
C26_CallStepsInOrder ==
    [][resp'.op = "call_api" =>
          LET user == get_by_api_key(users, resp'.request.user_api_key)
              model == {m \in models : m.model_name = resp'.request.model_name}
          IN /\ user = {} => resp'.detail = "Invalid API key"
             /\ (user # {} /\ model = {}) => resp'.detail = "Model not found"
             /\ (\/ user = {}
                 \/ model = {}
                 \/ \E m \in model : m.model_type # "AZURE_OPENAI")
                   => /\ resp'.attempts = 0
                      /\ resp'.answer = {}
                      /\ usage' = usage
             /\ usage' # usage =>
                   /\ resp'.attempts = 1
                   /\ \E a \in resp'.answer : ~a.raised /\ a.usage # {}]_vars

C26_Witness ==
    /\ resp.op = "call_api"
    /\ resp.user # {}
    /\ \E m \in models : /\ m.model_name = resp.request.model_name
                          /\ m.model_type # "AZURE_OPENAI"
    /\ resp.attempts = 0
    /\ \E r \in usage : r.user_id = The(resp.user).id

\* C27: when create-user requests for the same unused username interleave
\* between the existence check and the insert, one user row with that username
\* exists afterwards, one request succeeds, and the other fails with the error
\* a sequential duplicate gets, not with a server error.
C27_RacingDuplicateIsRejectedAlike ==
    [][resp'.op = "create_user" =>
          LET taken == get_by_username(users, resp'.username) # {}
          IN /\ Cardinality(get_by_username(users', resp'.username)) = 1
             /\ ~taken => resp'.status = HTTP_200_OK
             /\ taken =>
                   /\ users' = users
                   /\ resp'.status = create_user_body(users, nextKey, resp'.username,
                                                      "", FALSE).status
                   /\ resp'.status # HTTP_500_INTERNAL_SERVER_ERROR]_vars

\* C28: usage recording for one model call is all-or-nothing: either every
\* usage kind the provider reported is added to the ledger and the response
\* text is returned, or the request fails and the ledger is exactly as it was
\* before the request.
C28_RecordingAllOrNothing ==
    [][resp'.op = "call_api" =>
          IF resp'.status = HTTP_200_OK
          THEN /\ resp'.body # <<>>
               /\ \A a \in resp'.answer, u \in resp'.user, k \in ModelUsageType :
                     LET model_id == The(get_model_by_name(
                                            models, resp'.request.model_name).model).id
                     IN Counter(usage', u.id, model_id, k)
                           = Counter(usage, u.id, model_id, k) + Reported(a, k)
          ELSE usage' = usage]_vars

\* C29: a bearer token authenticates only the user record it was issued to: a
\* request that presents an issued token and is accepted is served as a record
\* that token was issued to at a login, never as a later record that has the
\* same username.
C29_TokenBoundToRecord ==
    (resp.op = "read_users_me" /\ IssuedJwt(resp.jwt) /\ resp.status = HTTP_200_OK) =>
        \E tk \in tokens, u \in users :
            /\ tk.jwt = resp.jwt
            /\ u.born = tk.born
            /\ resp.body = <<UserMeResponse(u)>>

\* C30: from the end of startup onwards at least one admin user exists in
\* every reachable state: no sequence of create-user, delete-user and
\* change-password requests removes the last admin.
C30_AdminAlwaysExists ==
    \E u \in users : u.is_admin
====
